---------------------------- MODULE Spec2Model ----------------------------
(***************************************************************************)
(* Red-black trees of the repository.                                      *)
(*                                                                         *)
(*   RedBlackTree<Key,Value>  (RedBlackTree.h, raw pointers, exceptions)   *)
(*   RBTree<T>                (RBTree.h, shared_ptr, exercised by test.cpp)*)
(*                                                                         *)
(* A tree is a heap of node records addressed by small integers; NIL (0)   *)
(* is nullptr.  Every operation of the classes is an operator that maps a  *)
(* heap to a heap, statement by statement as the C++ does; the actions     *)
(* call them with every key and value of the bounded input sets.           *)
(***************************************************************************)
EXTENDS Integers, Sequences, FiniteSets, TLC

(* ------------------------------ bounds -------------------------------- *)

\* the number of keys offered to RedBlackTree::insert / remove
MaxKey == 8

\* addresses beyond the first MaxKey that operator new can still hand out
MaxSpare == 1

\* the number of keys offered when two different payloads are
MaxPairKey == 5

\* the number of keys offered when the tree is copied
MaxCopyKey == 3

\* the number of keys of the node graphs built by hand
MaxGraphKey == 5

\* keys of the runs that grow a tree in ascending key order and shrink it
MaxDeepKey == 10

\* keys of the runs that apply one rotation or one transplant to a tree
MaxRotKey == 4

\* keys of the runs that insert absent keys and remove present ones
MaxLoopKey == 8

\* payloads offered to RedBlackTree::insert (two, to tell old from new)
Values == {"a", "b"}

\* the payload of the runs that offer one
OneValue == {"a"}

\* the i-th key offered: 1, 5, 10, 15, 20, 25, 30, ... (the keys main()
\* inserts, and then further multiples of 5)
Key(i) == IF i = 1 THEN 1 ELSE 5 * (i - 1)

PairKeys == {Key(i) : i \in 1..MaxPairKey}

Keys == {Key(i) : i \in 1..MaxKey}

CopyKeys == {Key(i) : i \in 1..MaxCopyKey}

GraphKeys == {Key(i) : i \in 1..MaxGraphKey}

DeepKeys == {Key(i) : i \in 1..MaxDeepKey}

RotKeys == {Key(i) : i \in 1..MaxRotKey}

LoopKeys == {Key(i) : i \in 1..MaxLoopKey}

NIL == 0

\* the addresses: MaxKey for the nodes of a tree, MaxSpare spare ones, and
\* two banks of MaxCopyKey for the nodes of its copies
Addr == 1..(MaxKey + MaxSpare + 2 * MaxCopyKey)

RED == "RED"

BLACK == "BLACK"

(* ------------------- RedBlackTree<Key,Value>: the heap ----------------- *)

\* struct Node as constructed by Node(k, v): RED, no parent, no children
Node(k, v) ==
    [key |-> k, value |-> v, color |-> RED, parent |-> NIL, left |-> NIL, right |-> NIL]

\* the contents of an address that holds no node (never read by the code)
NoNode == [key |-> 0, value |-> "", color |-> RED, parent |-> NIL, left |-> NIL, right |-> NIL]

\* the heap of an empty tree: RedBlackTree() : root(nullptr)
\* what a call has done so far, kept beside the heap it works on: the
\* rotations that restructured the tree, the passes of the fixup loop (the
\* branch taken and the depth of the fixup node at the start of the pass),
\* the functions that assigned root, the guards and lapses met (fired), and
\* the nodes handed to the caller: returned, or passed to visit, in order
NoTrail == [rots |-> 0, iters |-> << >>, rootBy |-> {}, fired |-> {}, nodes |-> << >>]

EmptyTree == [root |-> NIL, node |-> [a \in Addr |-> NoNode], live |-> {},
              trail |-> NoTrail]

\* a rotation went past its guard
Rotated(t) == [t EXCEPT !.trail.rots = @ + 1]

\* the function who executed root = ... (when wrote holds)
WroteRoot(t, who, wrote) ==
    IF wrote THEN [t EXCEPT !.trail.rootBy = @ \cup {who}] ELSE t

\* the guard or lapse what was met (when met holds)
Noted(t, what, met) ==
    IF met THEN [t EXCEPT !.trail.fired = @ \cup {what}] ELSE t

\* a pass of a fixup loop starts with the fixup node at depth d
Pass(t, d) == [t EXCEPT !.trail.iters = Append(@, [kind |-> "", depth |-> d])]

\* the pass takes the branch kind
Branch(t, kind) == [t EXCEPT !.trail.iters[Len(t.trail.iters)].kind = kind]

RECURSIVE Depth(_, _)
\* the number of nodes from n up to the root, by following parent
Depth(t, n) == IF n = NIL THEN 0 ELSE 1 + Depth(t, t.node[n].parent)

\* n->f = v
Set(t, n, f, v) == [t EXCEPT !.node[n][f] = v]

\* the addresses kept for a node whose key already has one
Spare == (MaxKey + 1)..(MaxKey + MaxSpare)

\* the address numbered like the key k: i for Key(i)
KeyAddr(k) == IF k = 1 THEN 1 ELSE (k \div 5) + 1

\* operator new: some address that holds no node.  The code never orders or
\* hashes addresses, so the choice is fixed: the address numbered like the
\* key (counted from base) when it is free, else the lowest free spare one
\* (NIL: heap exhausted).
AllocIn(t, k, base) ==
    IF base + KeyAddr(k) \notin t.live THEN base + KeyAddr(k)
    ELSE IF Spare \ t.live = {} THEN NIL
    ELSE CHOOSE a \in Spare \ t.live : \A b \in Spare \ t.live : a <= b

\* operator new for a node of the tree that is copied from
Alloc(t, k) == AllocIn(t, k, 0)

\* the addresses before the two banks that hold the nodes of copies
BankA == MaxKey + MaxSpare

BankB == MaxKey + MaxSpare + MaxCopyKey

\* the bank that holds the nodes of the tree with root r
BankOf(r) == IF r > BankB THEN BankB ELSE BankA

\* the bank that does not
OtherBank(r) == IF r > BankB THEN BankA ELSE BankB

\* new Node(k, v)
New(t, a, k, v) == [t EXCEPT !.node[a] = Node(k, v), !.live = @ \cup {a}]

\* delete z
Delete(t, z) == [t EXCEPT !.node[z] = NoNode, !.live = @ \ {z}]

\* the last pointer to the node at a goes out of scope without a delete: the
\* node stays allocated, and nothing can read its fields again
Lose(t, a) == [t EXCEPT !.node[a] = NoNode]


RECURSIVE Reach(_, _)
\* the nodes of the subtree at n, by following left and right
Reach(t, n) ==
    IF n = NIL THEN {}
    ELSE {n} \cup Reach(t, t.node[n].left) \cup Reach(t, t.node[n].right)

(* ------------------ RedBlackTree: rotation / transplant ---------------- *)

\* if (n) n->f = v
SetIf(t, n, f, v) == IF n # NIL THEN Set(t, n, f, v) ELSE t

\* if (p == nullptr) root = v;
\* else if (u == p->left) p->left = v; else p->right = v;
Relink(t, p, u, v) ==
    IF p = NIL THEN [t EXCEPT !.root = v]
    ELSE IF u = t.node[p].left THEN Set(t, p, "left", v)
    ELSE Set(t, p, "right", v)

\* if (p == nullptr) root = v;
\* else if (u == p->right) p->right = v; else p->left = v;
RelinkR(t, p, u, v) ==
    IF p = NIL THEN [t EXCEPT !.root = v]
    ELSE IF u = t.node[p].right THEN Set(t, p, "right", v)
    ELSE Set(t, p, "left", v)

\* void transplant(Node* u, Node* v)
transplant(t, u, v) ==
    SetIf(WroteRoot(Relink(t, t.node[u].parent, u, v),
                    "transplant", t.node[u].parent = NIL),
          v, "parent", t.node[u].parent)

\* a rotation that also copies the payload of y into x
leftRotate_copyValue(t, x) ==
    LET y  == t.node[x].right
        yl == t.node[t.node[x].right].left
        xp == t.node[x].parent
    IN  IF y = NIL THEN t
        ELSE Set(Set(Set(WroteRoot(Relink(Set(SetIf(Set(Rotated(t), x, "right", yl),
                                                    yl, "parent", x),
                                              y, "parent", xp),
                                          xp, x, y),
                                   "leftRotate", xp = NIL),
                         y, "left", x),
                     x, "parent", y),
                 x, "value", t.node[y].value)

\* void leftRotate(Node* x); the statements apply innermost first:
\*   x->right = y->left;  if (y->left) y->left->parent = x;
\*   y->parent = x->parent;  relink x's parent (or root) to y;
\*   y->left = x;  x->parent = y
leftRotate(t, x) ==
    LET y  == t.node[x].right
        yl == t.node[t.node[x].right].left
        xp == t.node[x].parent
    IN  IF y = NIL THEN Noted(t, "leftRotate.return", TRUE)
        ELSE Set(Set(WroteRoot(Relink(Set(SetIf(Set(Rotated(t), x, "right", yl),
                                                yl, "parent", x),
                                          y, "parent", xp),
                                      xp, x, y),
                               "leftRotate", xp = NIL),
                     y, "left", x),
                 x, "parent", y)

\* void rightRotate(Node* y); the statements apply innermost first:
\*   y->left = x->right;  if (x->right) x->right->parent = y;
\*   x->parent = y->parent;  relink y's parent (or root) to x;
\*   x->right = y;  y->parent = x
rightRotate(t, y) ==
    LET x  == t.node[y].left
        xr == t.node[t.node[y].left].right
        yp == t.node[y].parent
    IN  IF x = NIL THEN Noted(t, "rightRotate.return", TRUE)
        ELSE Set(Set(WroteRoot(RelinkR(Set(SetIf(Set(Rotated(t), y, "left", xr),
                                                 xr, "parent", y),
                                           x, "parent", yp),
                                       yp, y, x),
                               "rightRotate", yp = NIL),
                     x, "right", y),
                 y, "parent", x)

(* ----------------------- RedBlackTree: queries ------------------------- *)

RECURSIVE searchFrom(_, _, _)
\* the loop of search(), entered with current
searchFrom(t, current, key) ==
    IF current = NIL THEN NIL
    ELSE IF key < t.node[current].key THEN searchFrom(t, t.node[current].left, key)
    ELSE IF key > t.node[current].key THEN searchFrom(t, t.node[current].right, key)
    ELSE current

\* Node* search(const Key& key) const
search(t, key) == searchFrom(t, t.root, key)

RECURSIVE minimum(_, _)
\* Node* minimum(Node* node) const
minimum(t, n) ==
    IF n = NIL THEN NIL
    ELSE IF t.node[n].left # NIL THEN minimum(t, t.node[n].left)
    ELSE n

RECURSIVE maximum(_, _)
\* Node* maximum(Node* node) const
maximum(t, n) ==
    IF n = NIL THEN NIL
    ELSE IF t.node[n].right # NIL THEN maximum(t, t.node[n].right)
    ELSE n

RECURSIVE successorClimb(_, _, _)
\* the loop of successor(): while (y != nullptr && node == y->right)
\* { node = y; y = y->parent; }   return y
successorClimb(t, n, y) ==
    IF y # NIL /\ n = t.node[y].right THEN successorClimb(t, y, t.node[y].parent)
    ELSE y

\* successor that returns the parent without the climb
successor_noClimb(t, n) ==
    IF n = NIL THEN NIL
    ELSE IF t.node[n].right # NIL THEN minimum(t, t.node[n].right)
    ELSE t.node[n].parent

\* Node* successor(Node* node) const
successor(t, n) ==
    IF n = NIL THEN NIL
    ELSE IF t.node[n].right # NIL THEN minimum(t, t.node[n].right)
    ELSE successorClimb(t, n, t.node[n].parent)

RECURSIVE predecessorClimb(_, _, _)
\* the loop of predecessor(): while (y != nullptr && node == y->left)
\* { node = y; y = y->parent; }   return y
predecessorClimb(t, n, y) ==
    IF y # NIL /\ n = t.node[y].left THEN predecessorClimb(t, y, t.node[y].parent)
    ELSE y

\* Node* predecessor(Node* node) const
predecessor(t, n) ==
    IF n = NIL THEN NIL
    ELSE IF t.node[n].left # NIL THEN maximum(t, t.node[n].left)
    ELSE predecessorClimb(t, n, t.node[n].parent)

RECURSIVE inOrderHelper(_, _)
\* the traversal with the two recursive calls exchanged
inOrderHelper_reversed(t, n) ==
    IF n = NIL THEN << >>
    ELSE inOrderHelper(t, t.node[n].right) \o << n >> \o inOrderHelper(t, t.node[n].left)

\* inOrderHelper(node, visit): the nodes in the order visit is called on them
inOrderHelper(t, n) ==
    IF n = NIL THEN << >>
    ELSE inOrderHelper(t, t.node[n].left) \o << n >> \o inOrderHelper(t, t.node[n].right)

\* inOrderTraversal(visit)
inOrderTraversal(t) == inOrderHelper(t, t.root)

RECURSIVE preOrderHelper(_, _)
\* the traversal that visits a node after its left subtree
preOrderHelper_leftFirst(t, n) ==
    IF n = NIL THEN << >>
    ELSE preOrderHelper(t, t.node[n].left) \o << n >> \o preOrderHelper(t, t.node[n].right)

\* preOrderHelper(node, visit): the nodes in the order visit is called on them
preOrderHelper(t, n) ==
    IF n = NIL THEN << >>
    ELSE << n >> \o preOrderHelper(t, t.node[n].left) \o preOrderHelper(t, t.node[n].right)

\* preOrderTraversal(visit)
preOrderTraversal(t) == preOrderHelper(t, t.root)

RECURSIVE postOrderHelper(_, _)
\* postOrderHelper(node, visit): the nodes in the order visit is called on them
postOrderHelper(t, n) ==
    IF n = NIL THEN << >>
    ELSE postOrderHelper(t, t.node[n].left) \o postOrderHelper(t, t.node[n].right) \o << n >>

\* postOrderTraversal(visit)
postOrderTraversal(t) == postOrderHelper(t, t.root)

RECURSIVE validateHelper(_, _, _, _)
\* bool validateHelper(Node* node, int blackCount, int& pathBlackCount):
\* the result and pathBlackCount as the call leaves it
validateHelper(t, n, blackCount, pathBlackCount) ==
    IF n = NIL THEN
        IF pathBlackCount = -1 THEN [ok |-> TRUE, pbc |-> blackCount]
        ELSE [ok |-> (blackCount = pathBlackCount), pbc |-> pathBlackCount]
    ELSE
      LET nd == t.node[n] IN
      IF nd.color = RED
         /\ (   (nd.left # NIL /\ t.node[nd.left].color # BLACK)
             \/ (nd.right # NIL /\ t.node[nd.right].color # BLACK))
      THEN [ok |-> FALSE, pbc |-> pathBlackCount]
      ELSE
        LET bc == IF nd.color = BLACK THEN blackCount + 1 ELSE blackCount
            l  == validateHelper(t, nd.left, bc, pathBlackCount)
        IN  IF l.ok THEN validateHelper(t, nd.right, bc, l.pbc) ELSE l

\* validate without the test of the root's colour
validate_anyRoot(t) ==
    IF t.root = NIL THEN TRUE
    ELSE validateHelper(t, t.root, 0, -1).ok

\* bool validate() const
validate(t) ==
    IF t.root = NIL THEN TRUE
    ELSE IF t.node[t.root].color # BLACK THEN FALSE
    ELSE validateHelper(t, t.root, 0, -1).ok

(* ------------------- RedBlackTree: insert and its fixup ---------------- *)

\* the uncle case that leaves the grandparent as it is
insertRecolor_keepGrand(t, z, y) ==
    Set(Set(t, t.node[z].parent, "color", BLACK), y, "color", BLACK)

\* z->parent->color = BLACK; y->color = BLACK; z->parent->parent->color = RED
\* (the uncle y is RED)
insertRecolor(t, z, y) ==
    Set(Set(Set(t, t.node[z].parent, "color", BLACK),
            y, "color", BLACK),
        t.node[t.node[z].parent].parent, "color", RED)

\* the outer case rotating at the grandparent, back, and again
insertOuterLeft_rotateAgain(t, z) ==
    rightRotate(leftRotate(rightRotate(Set(Set(t, t.node[z].parent, "color", BLACK),
                                           t.node[t.node[z].parent].parent,
                                           "color", RED),
                                       t.node[t.node[z].parent].parent),
                           t.node[z].parent),
                t.node[t.node[z].parent].parent)

\* z->parent->color = BLACK; z->parent->parent->color = RED;
\* rightRotate(z->parent->parent)
insertOuterLeft(t, z) ==
    rightRotate(Set(Set(t, t.node[z].parent, "color", BLACK),
                    t.node[t.node[z].parent].parent, "color", RED),
                t.node[t.node[z].parent].parent)

\* z->parent->color = BLACK; z->parent->parent->color = RED;
\* leftRotate(z->parent->parent)
insertOuterRight(t, z) ==
    leftRotate(Set(Set(t, t.node[z].parent, "color", BLACK),
                   t.node[t.node[z].parent].parent, "color", RED),
               t.node[t.node[z].parent].parent)

\* a pass of the loop of insertFixup starts at z and takes the branch kind
insertPass(t, z, kind) == Branch(Pass(t, Depth(t, z)), kind)

\* the condition of the loop of insertFixup
insertFixupGoes(t, z) == z # t.root /\ t.node[t.node[z].parent].color = RED

\* the body of the loop of insertFixup, z's grandparent being there: the heap
\* it leaves and the z of the next pass
insertFixupPass(t, z) ==
    LET zp  == t.node[z].parent
        zpp == t.node[t.node[z].parent].parent
    IN
    IF zp = t.node[zpp].left THEN
      LET y == t.node[zpp].right IN
      IF y # NIL /\ t.node[y].color = RED
      THEN [t |-> insertRecolor(insertPass(t, z, "recolor"), z, y), z |-> zpp]
      ELSE IF z = t.node[zp].right
      THEN [t |-> insertOuterLeft(leftRotate(insertPass(t, z, "rotate"), zp), zp),
            z |-> zp]
      ELSE [t |-> insertOuterLeft(insertPass(t, z, "rotate"), z), z |-> z]
    ELSE
      LET y == t.node[zpp].left IN
      IF y # NIL /\ t.node[y].color = RED
      THEN [t |-> insertRecolor(insertPass(t, z, "recolor"), z, y), z |-> zpp]
      ELSE IF z = t.node[zp].left
      THEN [t |-> insertOuterRight(rightRotate(insertPass(t, z, "rotate"), zp), zp),
            z |-> zp]
      ELSE [t |-> insertOuterRight(insertPass(t, z, "rotate"), z), z |-> z]

RECURSIVE insertFixup(_, _)
\* the loop goes on from where the pass p ended
insertFixupOn(p) == insertFixup(p.t, p.z)

\* void insertFixup(Node* z): one pass of the while loop per unfolding,
\* root->color = BLACK when the loop condition fails.  A pass reads
\* z->parent->parent->left; with no grandparent that read is of a null
\* pointer, anything may follow, and the call is noted and not followed
insertFixup(t, z) ==
    IF insertFixupGoes(t, z) THEN
      IF t.node[t.node[z].parent].parent = NIL
      THEN Noted(t, "insertFixup.grandparent", TRUE)
      ELSE insertFixupOn(insertFixupPass(t, z))
    ELSE Set(t, t.root, "color", BLACK)

RECURSIVE insertDescend(_, _, _, _)
\* the descent loop of insert(): [dup |-> the key was met, y |-> the last
\* node seen]
insertDescend(t, x, y, key) ==
    IF x = NIL THEN [dup |-> FALSE, y |-> y]
    ELSE IF key < t.node[x].key THEN insertDescend(t, t.node[x].left, x, key)
    ELSE IF key > t.node[x].key THEN insertDescend(t, t.node[x].right, x, key)
    ELSE [dup |-> TRUE, y |-> x]

\* the linking with the comparison turned round
insertLink_mirrored(t, a, y, key) ==
    IF y = NIL THEN [Set(t, a, "parent", y) EXCEPT !.root = a]
    ELSE IF key > t.node[y].key THEN Set(Set(t, a, "parent", y), y, "left", a)
    ELSE Set(Set(t, a, "parent", y), y, "right", a)

\* the linking with root = newNode whatever y is
insertLink_rootAlways(t, a, y, key) ==
    WroteRoot([IF y = NIL THEN Set(t, a, "parent", y)
               ELSE IF key < t.node[y].key
               THEN Set(Set(t, a, "parent", y), y, "left", a)
               ELSE Set(Set(t, a, "parent", y), y, "right", a)
                 EXCEPT !.root = a],
              "insert", TRUE)

\* newNode->parent = y;  if (y == nullptr) root = newNode;
\* else if (key < y->key) y->left = newNode; else y->right = newNode
insertLink(t, a, y, key) ==
    IF y = NIL
    THEN WroteRoot([Set(t, a, "parent", y) EXCEPT !.root = a], "insert", TRUE)
    ELSE IF key < t.node[y].key THEN Set(Set(t, a, "parent", y), y, "left", a)
    ELSE Set(Set(t, a, "parent", y), y, "right", a)

\* insert() that links newNode and returns without insertFixup
insertNode_noFixup(t, a, key) ==
    IF insertDescend(t, t.root, NIL, key).dup
    THEN [t |-> Lose(t, a), outcome |-> "DuplicateKey"]
    ELSE [t |-> insertLink(t, a, insertDescend(t, t.root, NIL, key).y, key),
          outcome |-> "ok"]

\* insert() after newNode was allocated at address a: the descent, then the
\* throw (newNode is lost) or the linking and insertFixup(newNode)
insertNode(t, a, key) ==
    LET d == insertDescend(t, t.root, NIL, key) IN
    IF d.dup THEN [t |-> Lose(t, a), outcome |-> "DuplicateKey"]
    ELSE [t |-> insertFixup(insertLink(t, a, d.y, key), a), outcome |-> "ok"]

\* insert that stores the new value in the node it finds before it throws
insert_overwrite(t, a, key, value) ==
    IF search(t, key) # NIL
    THEN [t |-> Set(t, search(t, key), "value", value), outcome |-> "DuplicateKey"]
    ELSE insertNode(New(t, a, key, value), a, key)

\* void insert(const Key& key, const Value& value), newNode at address a:
\* the heap it leaves and how it ended ("ok", or the exception thrown)
insert(t, a, key, value) == insertNode(New(t, a, key, value), a, key)

(* ------------------- RedBlackTree: remove and its fixup ---------------- *)

\* n == nullptr || n->color == BLACK
IsBlack(t, n) == n = NIL \/ t.node[n].color = BLACK

\* deleteFixup that leaves the slot it ends on as it is
deleteFixupEnd_skip(t, x) == t

\* the statement after the loop of deleteFixup: if (x) x->color = BLACK
deleteFixupEnd(t, x) == SetIf(t, x, "color", BLACK)

\* x = root; break;  then the statement after the loop
deleteFixupBreak(t) == deleteFixupEnd(t, t.root)

\* the RED sibling case without parent->color = RED
deleteRedSiblingLeft_parentBlack(t, parent) ==
    LET w == t.node[parent].right IN
    IF w # NIL /\ t.node[w].color = RED
    THEN leftRotate(Set(t, w, "color", BLACK), parent)
    ELSE t

\* x is a left child.  if (w && w->color == RED) { w->color = BLACK;
\* parent->color = RED; leftRotate(parent); w = parent->right; }
\* (w is parent->right before and after)
deleteRedSiblingLeft(t, parent) ==
    LET w == t.node[parent].right IN
    IF w # NIL /\ t.node[w].color = RED
    THEN leftRotate(Set(Set(t, w, "color", BLACK), parent, "color", RED), parent)
    ELSE t

\* the near case carried out whatever the color of w->right
deleteNearLeft_always(t, parent) ==
    LET w == t.node[parent].right IN
    rightRotate(Set(SetIf(t, t.node[w].left, "color", BLACK), w, "color", RED), w)

\* x is a left child, w has a RED child.  if (w->right is BLACK) {
\* if (w->left) w->left->color = BLACK; w->color = RED; rightRotate(w);
\* w = parent->right; }   (w is parent->right before and after)
deleteNearLeft(t, parent) ==
    LET w == t.node[parent].right IN
    IF IsBlack(t, t.node[w].right)
    THEN rightRotate(Set(SetIf(t, t.node[w].left, "color", BLACK), w, "color", RED), w)
    ELSE t

\* the far case rotating at the parent, back, and again
deleteFarLeft_rotateAgain(t, parent) ==
    LET w == t.node[parent].right IN
    leftRotate(
        rightRotate(
            leftRotate(SetIf(Set(SetIf(t, w, "color", t.node[parent].color),
                                 parent, "color", BLACK),
                             IF w # NIL THEN t.node[w].right ELSE NIL, "color", BLACK),
                       parent),
            w),
        parent)

\* x is a left child.  if (w) w->color = parent->color;
\* parent->color = BLACK; if (w && w->right) w->right->color = BLACK;
\* leftRotate(parent)
deleteFarLeft(t, parent) ==
    LET w == t.node[parent].right IN
    leftRotate(SetIf(Set(SetIf(t, w, "color", t.node[parent].color),
                         parent, "color", BLACK),
                     IF w # NIL THEN t.node[w].right ELSE NIL, "color", BLACK),
               parent)

\* the mirror images, x a right child and w == parent->left
deleteRedSiblingRight(t, parent) ==
    LET w == t.node[parent].left IN
    IF w # NIL /\ t.node[w].color = RED
    THEN rightRotate(Set(Set(t, w, "color", BLACK), parent, "color", RED), parent)
    ELSE t

deleteNearRight(t, parent) ==
    LET w == t.node[parent].left IN
    IF IsBlack(t, t.node[w].left)
    THEN leftRotate(Set(SetIf(t, t.node[w].right, "color", BLACK), w, "color", RED), w)
    ELSE t

deleteFarRight(t, parent) ==
    LET w == t.node[parent].left IN
    rightRotate(SetIf(Set(SetIf(t, w, "color", t.node[parent].color),
                          parent, "color", BLACK),
                      IF w # NIL THEN t.node[w].left ELSE NIL, "color", BLACK),
                parent)

\* w == nullptr || (w's children are both BLACK or absent)
deleteSiblingBlack(t, w) ==
    w = NIL \/ (IsBlack(t, t.node[w].left) /\ IsBlack(t, t.node[w].right))

\* the child of parent that compares equal to x, as the loop of deleteFixup
\* picks it:  x == (parent ? parent->left : nullptr)
SideOf(t, x, parent) ==
    IF x = (IF parent # NIL THEN t.node[parent].left ELSE NIL) THEN "left" ELSE "right"

\* the sibling the loop of deleteFixup reads:  w = parent->right (or ->left)
SiblingOf(t, x, parent) ==
    IF SideOf(t, x, parent) = "left" THEN t.node[parent].right ELSE t.node[parent].left

\* parent is the parent of the slot x: of the node x, or of an empty child
\* position; it is absent only for the root position
SlotParent(t, x, parent) ==
    /\ x # NIL => t.node[x].parent = parent
    /\ x = NIL /\ parent # NIL => NIL \in {t.node[parent].left, t.node[parent].right}
    /\ parent = NIL => x = t.root

\* the nodes a pass of deleteFixup reads or writes: x, parent, the sibling
\* and the sibling's children
PassNodes(t, x, parent) ==
    {x, parent, SiblingOf(t, x, parent)}
        \cup (IF SiblingOf(t, x, parent) # NIL
              THEN {t.node[SiblingOf(t, x, parent)].left,
                    t.node[SiblingOf(t, x, parent)].right}
              ELSE {})

\* a pass of the loop of deleteFixup starts with x and parent (not null)
deletePass(t, x, parent) ==
    Noted(Noted(Noted(Pass(t, Depth(t, parent) + 1),
                      "deleteFixup.parent", ~SlotParent(t, x, parent)),
                "deleteFixup.sibling", SiblingOf(t, x, parent) = NIL),
          "deleteFixup.freed", ~(PassNodes(t, x, parent) \subseteq t.live \cup {NIL}))

RECURSIVE deleteFixup(_, _, _)
RECURSIVE deleteFixupLeft(_, _)
RECURSIVE deleteFixupRight(_, _)
\* void deleteFixup(Node* x, Node* parent): one pass of the while loop per
\* unfolding.  A pass reads parent->right or parent->left; with parent null
\* that read is of a null pointer, anything may follow, and the call is
\* noted and not followed
deleteFixup(t, x, parent) ==
    IF x # t.root /\ IsBlack(t, x) THEN
      IF parent = NIL THEN Noted(t, "deleteFixup.parent", TRUE)
      ELSE IF x = (IF parent # NIL THEN t.node[parent].left ELSE NIL)
      THEN deleteFixupLeft(
               deleteRedSiblingLeft(deletePass(t, x, parent), parent), parent)
      ELSE deleteFixupRight(
               deleteRedSiblingRight(deletePass(t, x, parent), parent), parent)
    ELSE deleteFixupEnd(t, x)

\* the rest of a pass with x a left child, after the RED sibling was dealt
\* with:  if (w is absent or has no RED child) { if (w) w->color = RED;
\* x = parent; parent = x->parent; } else { ...; x = root; break; }
deleteFixupLeft(t, parent) ==
    LET w == t.node[parent].right IN
    IF deleteSiblingBlack(t, w)
    THEN deleteFixup(SetIf(Branch(Noted(t, "deleteFixup.sibling", w = NIL), "recolor"),
                           w, "color", RED),
                     parent, t.node[parent].parent)
    ELSE deleteFixupBreak(
             deleteFarLeft(deleteNearLeft(Branch(t, "restructure"), parent), parent))

\* the same with x a right child
deleteFixupRight(t, parent) ==
    LET w == t.node[parent].left IN
    IF deleteSiblingBlack(t, w)
    THEN deleteFixup(SetIf(Branch(Noted(t, "deleteFixup.sibling", w = NIL), "recolor"),
                           w, "color", RED),
                     parent, t.node[parent].parent)
    ELSE deleteFixupBreak(
             deleteFarRight(deleteNearRight(Branch(t, "restructure"), parent), parent))

\* y taken out of its place, z's right subtree not handed to it
removeDetach_unlinked(t, z, y) ==
    IF t.node[y].parent # z THEN transplant(t, y, t.node[y].right) ELSE t

\* remove(), z has two children and y == minimum(z->right):
\*   if (y->parent != z) { transplant(y, y->right); y->right = z->right;
\*                         if (y->right) y->right->parent = y; }
removeDetach(t, z, y) ==
    IF t.node[y].parent # z
    THEN SetIf(Set(transplant(t, y, t.node[y].right), y, "right", t.node[z].right),
               t.node[z].right, "parent", y)
    ELSE t

\* the replacement of z by y without  if (y->left) y->left->parent = y
removeReplace_leftOrphan(t, z, y) ==
    Set(Set(transplant(t, z, y), y, "left", t.node[z].left),
        y, "color", t.node[z].color)

\* the replacement of z by y that also hands z's payload to y
removeReplace_copyValue(t, z, y) ==
    Set(Set(SetIf(Set(transplant(t, z, y), y, "left", t.node[z].left),
                  t.node[z].left, "parent", y),
            y, "color", t.node[z].color),
        y, "value", t.node[z].value)

\*   transplant(z, y); y->left = z->left;
\*   if (y->left) y->left->parent = y;  y->color = z->color
removeReplace(t, z, y) ==
    Set(SetIf(Set(transplant(t, z, y), y, "left", t.node[z].left),
              t.node[z].left, "parent", y),
        y, "color", t.node[z].color)

\* the three branches with fixupParent = y->parent also when that is z
removeUnlink_parentOfY(t, z) ==
    LET zn == t.node[z]
        y  == minimum(t, t.node[z].right)
    IN
    IF zn.left = NIL THEN
        [t |-> transplant(t, z, zn.right), x |-> zn.right,
         fixupParent |-> zn.parent, yOriginalColor |-> zn.color,
         side |-> SideOf(t, z, zn.parent)]
    ELSE IF zn.right = NIL THEN
        [t |-> transplant(t, z, zn.left), x |-> zn.left,
         fixupParent |-> zn.parent, yOriginalColor |-> zn.color,
         side |-> SideOf(t, z, zn.parent)]
    ELSE
        [t |-> removeReplace(removeDetach(t, z, y), z, y),
         x |-> t.node[y].right,
         fixupParent |-> t.node[y].parent,
         yOriginalColor |-> t.node[y].color,
         side |-> IF t.node[y].parent = z THEN "right" ELSE "left"]

\* the three branches of remove() that unlink z: the heap they leave, the
\* slot x that replaced the removed node, its parent, yOriginalColor, and
\* the side of the parent on which the removed node was
removeUnlink(t, z) ==
    LET zn == t.node[z]
        y  == minimum(t, t.node[z].right)
    IN
    IF zn.left = NIL THEN
        [t |-> transplant(t, z, zn.right), x |-> zn.right,
         fixupParent |-> zn.parent, yOriginalColor |-> zn.color,
         side |-> SideOf(t, z, zn.parent)]
    ELSE IF zn.right = NIL THEN
        [t |-> transplant(t, z, zn.left), x |-> zn.left,
         fixupParent |-> zn.parent, yOriginalColor |-> zn.color,
         side |-> SideOf(t, z, zn.parent)]
    ELSE
        [t |-> removeReplace(removeDetach(t, z, y), z, y),
         x |-> t.node[y].right,
         fixupParent |-> IF t.node[y].parent = z THEN y ELSE t.node[y].parent,
         yOriginalColor |-> t.node[y].color,
         side |-> IF t.node[y].parent = z THEN "right" ELSE "left"]

\* the arguments remove() passes to deleteFixup are a slot and its parent,
\* and the side the loop would pick for the slot is the side the removed
\* node was on
removeArgs(u) ==
    Noted(u.t, "remove.parent",
          \/ ~SlotParent(u.t, u.x, u.fixupParent)
          \/ u.fixupParent # NIL /\ SideOf(u.t, u.x, u.fixupParent) # u.side)

\* root or a link of an allocated node names a node that is not allocated
DanglingLink(t) ==
    \/ t.root \notin t.live \cup {NIL}
    \/ \E a \in t.live :
           {t.node[a].left, t.node[a].right, t.node[a].parent} \ (t.live \cup {NIL}) # {}

\* deleteFixup is entered after delete z: whether the tree still names z
removeFreed(t) == Noted(t, "deleteFixup.freed", DanglingLink(t))

\* delete z;  if (yOriginalColor == BLACK) deleteFixup(x, fixupParent)
removeFinish(u, z) ==
    IF u.yOriginalColor = BLACK
    THEN deleteFixup(removeFreed(Delete(removeArgs(u), z)), u.x, u.fixupParent)
    ELSE Delete(u.t, z)

\* remove that returns without a throw when the key is absent
remove_silent(t, key) ==
    LET z == search(t, key) IN
    IF z = NIL THEN [t |-> t, outcome |-> "ok"]
    ELSE [t |-> removeFinish(removeUnlink(t, z), z), outcome |-> "ok"]

\* void remove(const Key& key): the heap it leaves and how it ended
remove(t, key) ==
    LET z == search(t, key) IN
    IF z = NIL THEN [t |-> t, outcome |-> "KeyNotFound"]
    ELSE [t |-> removeFinish(removeUnlink(t, z), z), outcome |-> "ok"]

(* ------------------ RedBlackTree: copying, destruction ----------------- *)

RECURSIVE destroy(_, _)
\* void destroy(Node* node)
destroy(t, n) ==
    IF n = NIL THEN t
    ELSE Delete(destroy(destroy(t, t.node[n].left), t.node[n].right), n)

\* new Node(node->key, node->value) in clone(): the colour and the parent
\* left at the constructor's defaults
cloneNew_defaults(t, n, parent, base) ==
    [t |-> [t EXCEPT !.node[AllocIn(t, t.node[n].key, base)] =
                         Node(t.node[n].key, t.node[n].value),
                     !.live = @ \cup {AllocIn(t, t.node[n].key, base)}],
     a |-> AllocIn(t, t.node[n].key, base)]

\* Node* newNode = new Node(node->key, node->value, node->color, parent):
\* the heap and the address of newNode
cloneNew(t, n, parent, base) ==
    [t |-> [t EXCEPT !.node[AllocIn(t, t.node[n].key, base)] =
                         [Node(t.node[n].key, t.node[n].value) EXCEPT
                            !.color = t.node[n].color, !.parent = parent],
                     !.live = @ \cup {AllocIn(t, t.node[n].key, base)}],
     a |-> AllocIn(t, t.node[n].key, base)]

\* newNode->f = c, where c is the clone of a child: the heap and newNode
cloneLink(c, newNode, f) == [t |-> Set(c.t, newNode, f, c.a), a |-> newNode]

RECURSIVE clone(_, _, _, _)
RECURSIVE cloneChild(_, _, _, _)
\* newNode->f = clone(node->f, newNode), r the heap and newNode so far
cloneChild(r, n, f, base) ==
    cloneLink(clone(r.t, r.t.node[n][f], r.a, base), r.a, f)

\* Node* clone(Node* node, Node* parent): the heap and the address returned
clone(t, n, parent, base) ==
    IF n = NIL THEN [t |-> t, a |-> NIL]
    ELSE cloneChild(cloneChild(cloneNew(t, n, parent, base), n, "left", base),
                    n, "right", base)

\* RedBlackTree(const RedBlackTree& other): the heap and the root of the
\* tree constructed
copyConstruct(t, otherRoot, base) == clone(t, otherRoot, NIL, base)

\* RedBlackTree& operator=(RedBlackTree other), called on the tree with
\* root thisRoot: other is copy constructed from the argument, swap(other)
\* exchanges the roots, and other's destructor destroys what was this tree
copyAssign(t, thisRoot, argRoot) ==
    [t |-> destroy(copyConstruct(t, argRoot, OtherBank(thisRoot)).t, thisRoot),
     a |-> copyConstruct(t, argRoot, OtherBank(thisRoot)).a]

(* ----------------------- RBTree<T>: the heap --------------------------- *)

\* data offered to RBTree::insert / remove are 1..MaxData
MaxData == 4

\* nodes an RBTree can hold at a time
MaxRBNodes == 4

Data == 1..MaxData

RBAddr == 1..MaxRBNodes

\* struct Node as constructed by Node(data): RED, no links
RBNode(d) == [data |-> d, color |-> RED, left |-> NIL, right |-> NIL, parent |-> NIL]

\* the contents of an address that holds no node
RBNoNode == [data |-> 0, color |-> RED, left |-> NIL, right |-> NIL, parent |-> NIL]

\* RBTree() : root(nullptr); nullDeref records that the code has
\* dereferenced a null shared_ptr (undefined behaviour: nothing is assumed
\* about what the program does afterwards, it takes no further step)
RBEmpty == [root |-> NIL, node |-> [a \in RBAddr |-> RBNoNode], nullDeref |-> FALSE]

\* a null shared_ptr is dereferenced
RBFault(t) == [t EXCEPT !.nullDeref = TRUE]

\* std::make_shared<Node>: the lowest address that holds no node of the tree
RBAlloc(t) ==
    LET free == RBAddr \ Reach(t, t.root) IN
    IF free = {} THEN NIL ELSE CHOOSE a \in free : \A b \in free : a <= b

(* -------------------- RBTree: rotations, transplant -------------------- *)

\* void leftRotate(NodePtr x): as RedBlackTree::leftRotate, but y->left is
\* read without a test of y
RBTree_leftRotate(t, x) ==
    LET y  == t.node[x].right
        yl == t.node[t.node[x].right].left
        xp == t.node[x].parent
    IN  IF y = NIL THEN RBFault(t)
        ELSE Set(Set(Relink(Set(SetIf(Set(t, x, "right", yl),
                                      yl, "parent", x),
                                y, "parent", xp),
                            xp, x, y),
                     y, "left", x),
                 x, "parent", y)

\* void rightRotate(NodePtr x): y->right is read without a test of y
RBTree_rightRotate(t, x) ==
    LET y  == t.node[x].left
        yr == t.node[t.node[x].left].right
        xp == t.node[x].parent
    IN  IF y = NIL THEN RBFault(t)
        ELSE Set(Set(RelinkR(Set(SetIf(Set(t, x, "left", yr),
                                       yr, "parent", x),
                                 y, "parent", xp),
                             xp, x, y),
                     y, "right", x),
                 x, "parent", y)

\* void transplant(NodePtr u, NodePtr v)
RBTree_transplant(t, u, v) ==
    SetIf(Relink(t, t.node[u].parent, u, v), v, "parent", t.node[u].parent)

RECURSIVE RBTree_minimum(_, _)
\* NodePtr minimum(NodePtr node) const
RBTree_minimum(t, n) ==
    IF t.node[n].left # NIL THEN RBTree_minimum(t, t.node[n].left) ELSE n

RECURSIVE RBTree_searchFrom(_, _, _)
\* the loop of search(), entered with node
RBTree_searchFrom(t, n, data) ==
    IF n # NIL /\ t.node[n].data # data THEN
        IF data < t.node[n].data THEN RBTree_searchFrom(t, t.node[n].left, data)
        ELSE RBTree_searchFrom(t, t.node[n].right, data)
    ELSE n

\* NodePtr search(T data) const
RBTree_search(t, data) == RBTree_searchFrom(t, t.root, data)

(* --------------------- RBTree: insert and its fixup -------------------- *)

\* the recolouring that leaves the uncle y as it is
RBTree_insertRecolor_noUncle(t, z, y) ==
    Set(Set(t, t.node[z].parent, "color", BLACK),
        t.node[t.node[z].parent].parent, "color", RED)

\* z->parent->color = BLACK; y->color = BLACK; z->parent->parent->color = RED
RBTree_insertRecolor(t, z, y) ==
    Set(Set(Set(t, t.node[z].parent, "color", BLACK),
            y, "color", BLACK),
        t.node[t.node[z].parent].parent, "color", RED)

\* z->parent->color = BLACK; z->parent->parent->color = RED;
\* rightRotate(z->parent->parent)
\* (not reached when the rotation before it dereferenced null)
RBTree_insertOuterLeft(t, z) ==
    IF t.nullDeref THEN t
    ELSE RBTree_rightRotate(Set(Set(t, t.node[z].parent, "color", BLACK),
                                t.node[t.node[z].parent].parent, "color", RED),
                            t.node[t.node[z].parent].parent)

\* z->parent->color = BLACK; z->parent->parent->color = RED;
\* leftRotate(z->parent->parent)
RBTree_insertOuterRight(t, z) ==
    IF t.nullDeref THEN t
    ELSE RBTree_leftRotate(Set(Set(t, t.node[z].parent, "color", BLACK),
                               t.node[t.node[z].parent].parent, "color", RED),
                           t.node[t.node[z].parent].parent)

RECURSIVE RBTree_insertFixup(_, _)
\* void insertFixup(NodePtr z): one pass of the while loop per unfolding;
\* z->parent->parent->left dereferences null when z->parent is the root
RBTree_insertFixup(t, z) ==
    IF t.nullDeref THEN t
    ELSE IF t.node[z].parent # NIL /\ t.node[t.node[z].parent].color = RED THEN
      LET zp  == t.node[z].parent
          zpp == t.node[t.node[z].parent].parent
      IN
      IF zpp = NIL THEN RBFault(t)
      ELSE IF zp = t.node[zpp].left THEN
        LET y == t.node[zpp].right IN
        IF y # NIL /\ t.node[y].color = RED
        THEN RBTree_insertFixup(RBTree_insertRecolor(t, z, y), zpp)
        ELSE IF z = t.node[zp].right
        THEN RBTree_insertFixup(
                 RBTree_insertOuterLeft(RBTree_leftRotate(t, zp), zp), zp)
        ELSE RBTree_insertFixup(RBTree_insertOuterLeft(t, z), z)
      ELSE
        LET y == t.node[zpp].left IN
        IF y # NIL /\ t.node[y].color = RED
        THEN RBTree_insertFixup(RBTree_insertRecolor(t, z, y), zpp)
        ELSE IF z = t.node[zp].left
        THEN RBTree_insertFixup(
                 RBTree_insertOuterRight(RBTree_rightRotate(t, zp), zp), zp)
        ELSE RBTree_insertFixup(RBTree_insertOuterRight(t, z), z)
    ELSE Set(t, t.root, "color", BLACK)

RECURSIVE RBTree_insertDescend(_, _, _, _)
\* the descent loop of insert(): the last node seen (equal data goes right)
RBTree_insertDescend(t, x, y, data) ==
    IF x = NIL THEN y
    ELSE IF data < t.node[x].data THEN RBTree_insertDescend(t, t.node[x].left, x, data)
    ELSE RBTree_insertDescend(t, t.node[x].right, x, data)

\* the linking with the comparison turned round
RBTree_insertLink_mirrored(t, a, y, data) ==
    IF y = NIL THEN [Set(t, a, "parent", y) EXCEPT !.root = a]
    ELSE IF data < t.node[y].data THEN Set(Set(t, a, "parent", y), y, "right", a)
    ELSE Set(Set(t, a, "parent", y), y, "left", a)

\* z->parent = y;  if (!y) root = z;
\* else if (z->data < y->data) y->left = z; else y->right = z
RBTree_insertLink(t, a, y, data) ==
    IF y = NIL THEN [Set(t, a, "parent", y) EXCEPT !.root = a]
    ELSE IF data < t.node[y].data THEN Set(Set(t, a, "parent", y), y, "left", a)
    ELSE Set(Set(t, a, "parent", y), y, "right", a)

\* insert() after z was made at address a
RBTree_insertNode(t, a, data) ==
    RBTree_insertFixup(
        RBTree_insertLink(t, a, RBTree_insertDescend(t, t.root, NIL, data), data), a)

\* void insert(T data), the new node z at address a
RBTree_insert(t, a, data) ==
    RBTree_insertNode([t EXCEPT !.node[a] = RBNode(data)], a, data)

(* --------------------- RBTree: remove and its fixup -------------------- *)

\* x is a left child and w == x->parent->right is not null.
\* if (w->color == RED) { w->color = BLACK; x->parent->color = RED;
\* leftRotate(x->parent); w = x->parent->right; }
RBTree_removeRedSiblingLeft(t, x) ==
    LET xp == t.node[x].parent
        w  == t.node[t.node[x].parent].right
    IN  IF t.node[w].color = RED
        THEN RBTree_leftRotate(Set(Set(t, w, "color", BLACK), xp, "color", RED), xp)
        ELSE t

\* x is a left child, w has a RED child.  if (w->right is BLACK) {
\* if (w->left) w->left->color = BLACK; w->color = RED; rightRotate(w);
\* w = x->parent->right; }
RBTree_removeNearLeft(t, x) ==
    LET w == t.node[t.node[x].parent].right IN
    IF IsBlack(t, t.node[w].right)
    THEN RBTree_rightRotate(
             Set(SetIf(t, t.node[w].left, "color", BLACK), w, "color", RED), w)
    ELSE t

\* x is a left child.  w->color = x->parent->color;
\* x->parent->color = BLACK; if (w->right) w->right->color = BLACK;
\* leftRotate(x->parent)      (w->color dereferences null when w is null)
RBTree_removeFarLeft(t, x) ==
    LET xp == t.node[x].parent
        w  == t.node[t.node[x].parent].right
    IN  IF t.nullDeref THEN t
        ELSE IF w = NIL THEN RBFault(t)
        ELSE RBTree_leftRotate(
                 SetIf(Set(Set(t, w, "color", t.node[xp].color), xp, "color", BLACK),
                       t.node[w].right, "color", BLACK),
                 xp)

\* the mirror images, x a right child and w == x->parent->left
RBTree_removeRedSiblingRight(t, x) ==
    LET xp == t.node[x].parent
        w  == t.node[t.node[x].parent].left
    IN  IF t.node[w].color = RED
        THEN RBTree_rightRotate(Set(Set(t, w, "color", BLACK), xp, "color", RED), xp)
        ELSE t

RBTree_removeNearRight(t, x) ==
    LET w == t.node[t.node[x].parent].left IN
    IF IsBlack(t, t.node[w].left)
    THEN RBTree_leftRotate(
             Set(SetIf(t, t.node[w].right, "color", BLACK), w, "color", RED), w)
    ELSE t

RBTree_removeFarRight(t, x) ==
    LET xp == t.node[x].parent
        w  == t.node[t.node[x].parent].left
    IN  IF t.nullDeref THEN t
        ELSE IF w = NIL THEN RBFault(t)
        ELSE RBTree_rightRotate(
                 SetIf(Set(Set(t, w, "color", t.node[xp].color), xp, "color", BLACK),
                       t.node[w].left, "color", BLACK),
                 xp)

RECURSIVE RBTree_removeFixup(_, _)
RECURSIVE RBTree_removeFixupLeft(_, _)
RECURSIVE RBTree_removeFixupRight(_, _)
\* void removeFixup(NodePtr x): one pass of the while loop per unfolding.
\* x->parent dereferences null when x is null, x->parent->left when x has
\* no parent, w->color when the sibling w is null.
RBTree_removeFixup(t, x) ==
    IF t.nullDeref THEN t
    ELSE IF x # t.root /\ IsBlack(t, x) THEN
      IF x = NIL THEN RBFault(t)
      ELSE IF t.node[x].parent = NIL THEN RBFault(t)
      ELSE IF x = t.node[t.node[x].parent].left THEN
        IF t.node[t.node[x].parent].right = NIL THEN RBFault(t)
        ELSE RBTree_removeFixupLeft(RBTree_removeRedSiblingLeft(t, x), x)
      ELSE
        IF t.node[t.node[x].parent].left = NIL THEN RBFault(t)
        ELSE RBTree_removeFixupRight(RBTree_removeRedSiblingRight(t, x), x)
    ELSE SetIf(t, x, "color", BLACK)

\* x = root: the loop ends and root is coloured BLACK
RBTree_removeFixupBreak(t) == RBTree_removeFixup(t, t.root)

\* the rest of a pass with x a left child:  if (w has no RED child)
\* { w->color = RED; x = x->parent; } else { ...; x = root; }
RBTree_removeFixupLeft(t, x) ==
    LET w == t.node[t.node[x].parent].right IN
    IF t.nullDeref THEN t
    ELSE IF w = NIL THEN RBFault(t)
    ELSE IF IsBlack(t, t.node[w].left) /\ IsBlack(t, t.node[w].right)
    THEN RBTree_removeFixup(Set(t, w, "color", RED), t.node[x].parent)
    ELSE RBTree_removeFixupBreak(RBTree_removeFarLeft(RBTree_removeNearLeft(t, x), x))

\* the same with x a right child
RBTree_removeFixupRight(t, x) ==
    LET w == t.node[t.node[x].parent].left IN
    IF t.nullDeref THEN t
    ELSE IF w = NIL THEN RBFault(t)
    ELSE IF IsBlack(t, t.node[w].left) /\ IsBlack(t, t.node[w].right)
    THEN RBTree_removeFixup(Set(t, w, "color", RED), t.node[x].parent)
    ELSE RBTree_removeFixupBreak(RBTree_removeFarRight(RBTree_removeNearRight(t, x), x))

\* remove(NodePtr z), z has two children, y == minimum(z->right), x == y->right:
\*   if (y->parent == z) { if (x) x->parent = y; }
\*   else { transplant(y, y->right); y->right = z->right; y->right->parent = y; }
RBTree_removeDetach(t, z, y) ==
    IF t.node[y].parent = z
    THEN SetIf(t, t.node[y].right, "parent", y)
    ELSE Set(Set(RBTree_transplant(t, y, t.node[y].right), y, "right", t.node[z].right),
             t.node[z].right, "parent", y)

\*   transplant(z, y); y->left = z->left; y->left->parent = y;
\*   y->color = z->color
RBTree_removeReplace(t, z, y) ==
    Set(Set(Set(RBTree_transplant(t, z, y), y, "left", t.node[z].left),
            t.node[z].left, "parent", y),
        y, "color", t.node[z].color)

\* if (originalColor == Color::BLACK) removeFixup(x)
RBTree_removeMaybeFixup(t, originalColor, x) ==
    IF originalColor = BLACK THEN RBTree_removeFixup(t, x) ELSE t

\* void remove(NodePtr z)
RBTree_removeNode(t, z) ==
    LET zn == t.node[z]
        y  == RBTree_minimum(t, t.node[z].right)
    IN
    IF zn.left = NIL
    THEN RBTree_removeMaybeFixup(RBTree_transplant(t, z, zn.right), zn.color, zn.right)
    ELSE IF zn.right = NIL
    THEN RBTree_removeMaybeFixup(RBTree_transplant(t, z, zn.left), zn.color, zn.left)
    ELSE RBTree_removeMaybeFixup(
             RBTree_removeReplace(RBTree_removeDetach(t, z, y), z, y),
             t.node[y].color, t.node[y].right)

\* the node removed is released when the last shared_ptr to it, remove()'s
\* local z, goes out of scope
RBTree_release(t, z) == IF t.nullDeref THEN t ELSE [t EXCEPT !.node[z] = RBNoNode]

RECURSIVE RBTree_removeFrom(_, _, _)
\* the loop of remove(T data), entered with z
RBTree_removeFrom(t, z, data) ==
    IF z = NIL THEN t
    ELSE IF t.node[z].data = data THEN RBTree_release(RBTree_removeNode(t, z), z)
    ELSE IF data < t.node[z].data THEN RBTree_removeFrom(t, t.node[z].left, data)
    ELSE RBTree_removeFrom(t, t.node[z].right, data)

\* void remove(T data)
RBTree_remove(t, data) == RBTree_removeFrom(t, t.root, data)

(* ------------------------------- state --------------------------------- *)

VARIABLES
    root,       \* RedBlackTree::root
    node,       \* the Node objects of the RedBlackTree, by address
    live,       \* the addresses allocated by new and not yet deleted
    call,       \* the last public call made on the RedBlackTree
    outcome,    \* how it ended: "ok", "DuplicateKey" or "KeyNotFound"
    present,    \* the keys inserted with success and not removed since
    roundTrip,  \* how many calls of RoundTrip the calls so far are, -1 when
                \* they are not its beginning
    trail,      \* what the last call did: its rotations, the passes of its
                \* fixup loop and the functions that assigned root
    hasCopy,    \* a second RedBlackTree, copied from the first, exists
    copyRoot,   \* its root
    rbRoot,     \* RBTree::root
    rbNode,     \* the Node objects of the RBTree, by address
    nullDeref,  \* the RBTree code has dereferenced a null shared_ptr
    rbCall,     \* the last public call made on the RBTree
    rbInserted, \* the data passed to RBTree::insert before any remove
    rbRemoved   \* RBTree::remove has been called

vars == << root, node, live, call, outcome, present, roundTrip, trail,
           hasCopy, copyRoot,
           rbRoot, rbNode, nullDeref, rbCall, rbInserted, rbRemoved >>

copyVars == << hasCopy, copyRoot >>

rbtVars == << root, node, live, call, outcome, present, roundTrip, trail,
             copyVars >>

rbVars == << rbRoot, rbNode, nullDeref, rbCall, rbInserted, rbRemoved >>

\* the RedBlackTree object and its nodes as one heap
T == [root |-> root, node |-> node, live |-> live, trail |-> NoTrail]

\* the copy and its nodes as one heap
T2 == [root |-> copyRoot, node |-> node, live |-> live, trail |-> NoTrail]

\* the RBTree object and its nodes as one heap
RB == [root |-> rbRoot, node |-> rbNode, nullDeref |-> nullDeref]

\* the calls of the round trip: the seven inserts of main(), then
\* remove(20) and remove(5)
RoundTrip ==
    << [op |-> "insert", key |-> 10], [op |-> "insert", key |-> 20],
       [op |-> "insert", key |-> 30], [op |-> "insert", key |-> 15],
       [op |-> "insert", key |-> 25], [op |-> "insert", key |-> 5],
       [op |-> "insert", key |-> 1],  [op |-> "remove", key |-> 20],
       [op |-> "remove", key |-> 5] >>

\* roundTrip after the call c
Follow(rt, c) ==
    IF rt >= 0 /\ rt < Len(RoundTrip) /\ RoundTrip[rt + 1] = c THEN rt + 1 ELSE -1

Init ==
    /\ root = EmptyTree.root
    /\ node = EmptyTree.node
    /\ live = EmptyTree.live
    /\ call = [op |-> "none", key |-> 0]
    /\ outcome = "none"
    /\ present = {}
    /\ roundTrip = 0
    /\ trail = NoTrail
    /\ hasCopy = FALSE
    /\ copyRoot = NIL
    /\ rbRoot = RBEmpty.root
    /\ rbNode = RBEmpty.node
    /\ nullDeref = RBEmpty.nullDeref
    /\ rbCall = [op |-> "none", data |-> 0, found |-> FALSE]
    /\ rbInserted = {}
    /\ rbRemoved = FALSE

\* tree.insert(k, v), the exception caught by the caller as in main()
Insert(k, v) ==
    LET a == Alloc(T, k) IN
    /\ a # NIL
    /\ LET r == insert(T, a, k, v) IN
       /\ root' = r.t.root
       /\ node' = r.t.node
       /\ live' = r.t.live
       /\ outcome' = r.outcome
       /\ trail' = r.t.trail
       /\ present' = IF r.outcome = "ok" THEN present \cup {k} ELSE present
    /\ call' = [op |-> "insert", key |-> k]
    /\ roundTrip' = Follow(roundTrip, [op |-> "insert", key |-> k])
    /\ UNCHANGED << copyVars, rbVars >>

\* tree.remove(k), the exception caught by the caller as in main()
Remove(k) ==
    LET r == remove(T, k) IN
    /\ root' = r.t.root
    /\ node' = r.t.node
    /\ live' = r.t.live
    /\ outcome' = r.outcome
    /\ trail' = r.t.trail
    /\ present' = IF r.outcome = "ok" THEN present \ {k} ELSE present
    /\ call' = [op |-> "remove", key |-> k]
    /\ roundTrip' = Follow(roundTrip, [op |-> "remove", key |-> k])
    /\ UNCHANGED << copyVars, rbVars >>

\* RedBlackTree<int, std::string> copy(tree)
Copy ==
    /\ ~hasCopy
    /\ LET c == copyConstruct(T, root, BankA) IN
       /\ copyRoot' = c.a
       /\ node' = c.t.node
       /\ live' = c.t.live
    /\ hasCopy' = TRUE
    /\ call' = [op |-> "copy", key |-> 0]
    /\ outcome' = "ok"
    /\ roundTrip' = Follow(roundTrip, [op |-> "copy", key |-> 0])
    /\ trail' = NoTrail
    /\ UNCHANGED << root, present, rbVars >>

\* copy = tree
Assign ==
    /\ hasCopy
    /\ LET c == copyAssign(T, copyRoot, root) IN
       /\ copyRoot' = c.a
       /\ node' = c.t.node
       /\ live' = c.t.live
    /\ call' = [op |-> "assign", key |-> 0]
    /\ outcome' = "ok"
    /\ roundTrip' = Follow(roundTrip, [op |-> "assign", key |-> 0])
    /\ trail' = NoTrail
    /\ UNCHANGED << root, present, hasCopy, rbVars >>

\* copy.insert(k, v), the exception caught by the caller
CopyInsert(k, v) ==
    LET a == AllocIn(T2, k, BankOf(copyRoot)) IN
    /\ hasCopy
    /\ a # NIL
    /\ LET r == insert(T2, a, k, v) IN
       /\ copyRoot' = r.t.root
       /\ node' = r.t.node
       /\ live' = r.t.live
       /\ outcome' = r.outcome
       /\ trail' = r.t.trail
    /\ call' = [op |-> "copy.insert", key |-> k]
    /\ roundTrip' = Follow(roundTrip, [op |-> "copy.insert", key |-> k])
    /\ UNCHANGED << root, present, hasCopy, rbVars >>

\* copy.remove(k), the exception caught by the caller
CopyRemove(k) ==
    /\ hasCopy
    /\ LET r == remove(T2, k) IN
       /\ copyRoot' = r.t.root
       /\ node' = r.t.node
       /\ live' = r.t.live
       /\ outcome' = r.outcome
       /\ trail' = r.t.trail
    /\ call' = [op |-> "copy.remove", key |-> k]
    /\ roundTrip' = Follow(roundTrip, [op |-> "copy.remove", key |-> k])
    /\ UNCHANGED << root, present, hasCopy, rbVars >>

\* a caller links new Node(k, v, c, parent) below the node where the
\* descent for k ends (Node and its fields are public): any tree-shaped
\* node graph with consistent links is built by such steps
Plant(k, v, c) ==
    /\ ~insertDescend(T, root, NIL, k).dup
    /\ LET t == insertLink(Set(New(T, Alloc(T, k), k, v), Alloc(T, k), "color", c),
                           Alloc(T, k), insertDescend(T, root, NIL, k).y, k)
       IN /\ root' = t.root
          /\ node' = t.node
          /\ live' = t.live
    /\ call' = [op |-> "plant", key |-> k]
    /\ outcome' = "ok"
    /\ roundTrip' = Follow(roundTrip, [op |-> "plant", key |-> k])
    /\ trail' = NoTrail
    /\ UNCHANGED << present, copyVars, rbVars >>

\* tree.validate(), as main() calls it: a const member, the result kept
Validate ==
    /\ call' = [op |-> "validate", key |-> 0]
    /\ outcome' = IF validate(T) THEN "true" ELSE "false"
    /\ roundTrip' = Follow(roundTrip, [op |-> "validate", key |-> 0])
    /\ trail' = NoTrail
    /\ UNCHANGED << root, node, live, present, copyVars, rbVars >>

\* leftRotate(x) on a node x of the tree
LeftRotate(x) ==
    /\ x \in Reach(T, root)
    /\ LET t == leftRotate(T, x) IN
       /\ root' = t.root
       /\ node' = t.node
       /\ trail' = t.trail
    /\ call' = [op |-> "leftRotate", key |-> node[x].key]
    /\ outcome' = "ok"
    /\ roundTrip' = Follow(roundTrip, [op |-> "leftRotate", key |-> node[x].key])
    /\ UNCHANGED << live, present, copyVars, rbVars >>

\* rightRotate(y) on a node y of the tree
RightRotate(y) ==
    /\ y \in Reach(T, root)
    /\ LET t == rightRotate(T, y) IN
       /\ root' = t.root
       /\ node' = t.node
       /\ trail' = t.trail
    /\ call' = [op |-> "rightRotate", key |-> node[y].key]
    /\ outcome' = "ok"
    /\ roundTrip' = Follow(roundTrip, [op |-> "rightRotate", key |-> node[y].key])
    /\ UNCHANGED << live, present, copyVars, rbVars >>

\* the second arguments remove() passes to transplant with u first: u->right,
\* u->left, and minimum(u->right)
TransplantArgs(t, u) ==
    {t.node[u].left, t.node[u].right}
        \cup (IF t.node[u].right # NIL THEN {minimum(t, t.node[u].right)} ELSE {})

\* transplant(u, v) on a node u of the tree
Transplant(u, v) ==
    /\ u \in Reach(T, root)
    /\ v \in TransplantArgs(T, u)
    /\ LET t == transplant(T, u, v) IN
       /\ root' = t.root
       /\ node' = t.node
       /\ trail' = t.trail
    /\ call' = [op |-> "transplant", key |-> node[u].key]
    /\ outcome' = "ok"
    /\ roundTrip' = Follow(roundTrip, [op |-> "transplant", key |-> node[u].key])
    /\ UNCHANGED << live, present, copyVars, rbVars >>

\* a call of a const member that hands the nodes ns to its caller: no member
\* of the tree and no field of a node is assigned
Query(op, k, ns) ==
    /\ call' = [op |-> op, key |-> k]
    /\ outcome' = "ok"
    /\ trail' = [NoTrail EXCEPT !.nodes = ns]
    /\ roundTrip' = Follow(roundTrip, [op |-> op, key |-> k])
    /\ UNCHANGED << root, node, live, present, copyVars, rbVars >>

\* tree.search(k)
Search(k) == Query("search", k, << search(T, k) >>)

\* tree.minimum(tree.search(k)), tree.maximum(tree.search(k))
Minimum(k) == Query("minimum", k, << minimum(T, search(T, k)) >>)

Maximum(k) == Query("maximum", k, << maximum(T, search(T, k)) >>)

\* tree.successor(tree.search(k)), tree.predecessor(tree.search(k))
Successor(k) == Query("successor", k, << successor(T, search(T, k)) >>)

Predecessor(k) == Query("predecessor", k, << predecessor(T, search(T, k)) >>)

\* tree.inOrderTraversal(visit), visit keeping the nodes it is called on
InOrder == Query("inOrderTraversal", 0, inOrderTraversal(T))

\* tree.preOrderTraversal(visit)
PreOrder == Query("preOrderTraversal", 0, preOrderTraversal(T))

\* tree.postOrderTraversal(visit)
PostOrder == Query("postOrderTraversal", 0, postOrderTraversal(T))

\* RBTree: tree.insert(d)
RBInsert(d) ==
    LET a == RBAlloc(RB) IN
    /\ ~nullDeref
    /\ a # NIL
    /\ LET t == RBTree_insert(RB, a, d) IN
       /\ rbRoot' = t.root
       /\ rbNode' = t.node
       /\ nullDeref' = t.nullDeref
    /\ rbCall' = [op |-> "insert", data |-> d, found |-> RBTree_search(RB, d) # NIL]
    /\ rbInserted' = IF rbRemoved THEN {} ELSE rbInserted \cup {d}
    /\ UNCHANGED << rbRemoved, rbtVars >>

\* RBTree: tree.remove(d)
RBRemove(d) ==
    /\ ~nullDeref
    /\ LET t == RBTree_remove(RB, d) IN
       /\ rbRoot' = t.root
       /\ rbNode' = t.node
       /\ nullDeref' = t.nullDeref
    /\ rbCall' = [op |-> "remove", data |-> d, found |-> RBTree_search(RB, d) # NIL]
    /\ rbRemoved' = TRUE
    /\ rbInserted' = {}
    /\ UNCHANGED rbtVars

\* the calls a program makes on a RedBlackTree<int, V>, keys in K, values in V
NextOn(K, V) ==
    \/ \E k \in K, v \in V : Insert(k, v)
    \/ \E k \in K : Remove(k)

Next == NextOn(Keys, OneValue)

\* a RedBlackTree<int, std::string> used with MaxKey keys and one payload
Spec == Init /\ [][Next]_vars

NextV == NextOn(PairKeys, Values)

\* the same tree used with MaxPairKey keys and two payloads
SpecV == Init /\ [][NextV]_vars

\* the calls of a program that inserts only keys above those in the tree
\* and removes only keys that are in it
NextD ==
    \/ \E k \in DeepKeys, v \in OneValue :
           /\ \A p \in present : p < k
           /\ Insert(k, v)
    \/ \E k \in DeepKeys :
           /\ k \in present
           /\ Remove(k)

\* a RedBlackTree<int, std::string> grown and shrunk that way with
\* MaxDeepKey keys and one payload
SpecD == Init /\ [][NextD]_vars

\* the calls of a program that inserts only keys that are not in the tree
\* and removes only keys that are in it, so that no call throws
NextL ==
    \/ \E k \in LoopKeys, v \in OneValue :
           /\ k \notin present
           /\ Insert(k, v)
    \/ \E k \in LoopKeys :
           /\ k \in present
           /\ Remove(k)

\* a RedBlackTree<int, std::string> used that way with MaxLoopKey keys and
\* one payload
SpecL == Init /\ [][NextL]_vars

\* the tree has only seen the calls of its public interface
Untouched == call.op \in {"none", "insert", "remove"}

\* inserts and removes, and then one call of leftRotate, rightRotate or
\* transplant on the tree they made
NextP ==
    \/ Untouched /\ NextOn(RotKeys, Values)
    \/ \E x \in Addr : Untouched /\ LeftRotate(x)
    \/ \E y \in Addr : Untouched /\ RightRotate(y)
    \/ \E u \in Addr, v \in Addr \cup {NIL} : Untouched /\ Transplant(u, v)

\* the three primitives applied to every node of every tree made with
\* MaxRotKey keys and two payloads
SpecP == Init /\ [][NextP]_vars

\* the calls a program makes on a RedBlackTree, those of its const members
\* included
NextQ ==
    \/ NextOn(PairKeys, OneValue)
    \/ \E k \in PairKeys : Search(k)
    \/ \E k \in PairKeys : Minimum(k)
    \/ \E k \in PairKeys : Maximum(k)
    \/ \E k \in PairKeys : Successor(k)
    \/ \E k \in PairKeys : Predecessor(k)
    \/ Validate
    \/ InOrder
    \/ PreOrder
    \/ PostOrder

\* a RedBlackTree<int, std::string> used and queried with MaxPairKey keys
\* and one payload
SpecQ == Init /\ [][NextQ]_vars

\* the calls a program makes on a RedBlackTree and on a copy of it
NextC ==
    \/ NextOn(CopyKeys, OneValue)
    \/ Copy
    \/ Assign
    \/ \E k \in CopyKeys, v \in OneValue : CopyInsert(k, v)
    \/ \E k \in CopyKeys : CopyRemove(k)

\* a RedBlackTree<int, std::string> and a copy of it, used with MaxCopyKey
\* keys and one payload
SpecC == Init /\ [][NextC]_vars

\* node graphs built by hand, and validate() called on them
NextG ==
    \/ \E k \in GraphKeys, v \in OneValue, c \in {RED, BLACK} : Plant(k, v, c)
    \/ Validate

\* validate() on every tree-shaped node graph of up to MaxGraphKey nodes
SpecG == Init /\ [][NextG]_vars

\* the calls a program makes on an RBTree<int>
NextRB ==
    \/ \E d \in Data : RBInsert(d)
    \/ \E d \in Data : RBRemove(d)

\* an RBTree<int> used with data 1..MaxData
SpecRB == Init /\ [][NextRB]_vars

(* ------------------------- properties: helpers ------------------------- *)

RECURSIVE PathBlacks(_, _)
\* the numbers of BLACK nodes on the paths from n down to an absent child
PathBlacks(t, n) ==
    IF n = NIL THEN {0}
    ELSE { b + (IF t.node[n].color = BLACK THEN 1 ELSE 0) :
             b \in PathBlacks(t, t.node[n].left) \cup PathBlacks(t, t.node[n].right) }

\* the red-black properties of the tree t
RedBlack(t) ==
    /\ IsBlack(t, t.root)
    /\ \A n \in Reach(t, t.root) :
         t.node[n].color = RED
           => IsBlack(t, t.node[n].left) /\ IsBlack(t, t.node[n].right)
    /\ Cardinality(PathBlacks(t, t.root)) = 1

\* binary-search-tree order at every node of t
BSTOrder(t) ==
    \A n \in Reach(t, t.root) :
      /\ \A m \in Reach(t, t.node[n].left) : t.node[m].key < t.node[n].key
      /\ \A m \in Reach(t, t.node[n].right) : t.node[m].key > t.node[n].key

\* the keys in the order inOrderTraversal visits them
InOrderKeys(t) ==
    [i \in 1..Len(inOrderTraversal(t)) |-> t.node[inOrderTraversal(t)[i]].key]

StrictlyAscending(s) == \A i \in 1..(Len(s) - 1) : s[i] < s[i + 1]

\* the number of nodes linked into the RedBlackTree / the RBTree
Size == Cardinality(Reach(T, root))

RBSize == Cardinality(Reach(RB, rbRoot))

\* data insert can never be given, to search for
ProbeData == 0..(MaxData + 1)

(* ------------------------------ properties ----------------------------- *)

\* C1: RedBlackTree, after every insert and every remove (successful or
\* failing) validate() returns true: the root is absent or BLACK, no RED
\* node has a RED child, and every path from the root to an absent child
\* holds the same number of BLACK nodes.
C1_ValidateHolds == validate(T) /\ RedBlack(T)

C1_Witness ==
    /\ call.op = "remove" /\ outcome = "ok"
    /\ Size >= 6
    /\ \E n \in Reach(T, root) : node[n].color = RED
    /\ validate(T)

\* C2: RedBlackTree, after any sequence of insert and remove calls the
\* keys of the left subtree of every node are smaller and those of its
\* right subtree larger, and inOrderTraversal visits the keys in strictly
\* ascending order.
C2_BSTOrder == BSTOrder(T) /\ StrictlyAscending(InOrderKeys(T))

C2_Witness ==
    /\ call.op = "remove" /\ outcome = "ok"
    /\ Len(InOrderKeys(T)) >= 6
    /\ StrictlyAscending(InOrderKeys(T))

\* C3: RedBlackTree, search(k) returns a node whose key is k exactly when k
\* was inserted with success and not removed since (so after a successful
\* remove(k) search(k) is absent and every other key is still found).
C3_Membership ==
    \A k \in Keys :
      IF k \in present
      THEN search(T, k) # NIL /\ node[search(T, k)].key = k
      ELSE search(T, k) = NIL

C3_Witness ==
    /\ call.op = "remove" /\ outcome = "ok"
    /\ search(T, call.key) = NIL
    /\ Cardinality(present) >= 5
    /\ \A k \in present : search(T, k) # NIL

\* C4: RedBlackTree, insert(key, value) of a key that is in the tree throws
\* (DuplicateKey) and leaves the tree as it was: the same nodes, shape,
\* colours, and the value stored for the key.
C4_DuplicateRejected ==
    [][\A k \in Keys, v \in Values :
         (call' = [op |-> "insert", key |-> k] /\ search(T, k) # NIL /\ Insert(k, v))
           => /\ outcome' = "DuplicateKey"
              /\ root' = root
              /\ Reach(T', root') = Reach(T, root)
              /\ \A n \in Reach(T, root) : node'[n] = node[n]]_vars

C4_Witness ==
    /\ call.op = "insert" /\ outcome = "DuplicateKey"
    /\ Size >= 3
    /\ \E n \in Reach(T, root) : node[n].key = call.key /\ node[n].value = "b"
    /\ \E n \in Reach(T, root) : node[n].value = "a"

\* C5: RedBlackTree, remove(key) of a key that is not in the tree throws
\* (KeyNotFound) and leaves the tree as it was: validate() is still true,
\* the in-order sequence, shape and colours are the same.
C5_MissingKeyRemoval ==
    [][\A k \in Keys :
         (call' = [op |-> "remove", key |-> k] /\ search(T, k) = NIL /\ Remove(k))
           => /\ outcome' = "KeyNotFound"
              /\ validate(T')
              /\ inOrderTraversal(T') = inOrderTraversal(T)
              /\ root' = root /\ node' = node /\ live' = live]_vars

C5_Witness ==
    /\ call.op = "remove" /\ outcome = "KeyNotFound"
    /\ Size >= 3
    /\ call.key \notin present

\* C6: RedBlackTree, after every insert or remove call, failed ones too,
\* the nodes allocated and not freed are the nodes reachable from root.
C6_NoLeak == live = Reach(T, root)

\* C7: RBTree, every remove of a key that is present completes without a
\* dereference of an absent node and leaves a tree with the red-black
\* properties.
C7_RemoveSafe ==
    (rbCall.op = "remove" /\ rbCall.found) => (~nullDeref /\ RedBlack(RB))

\* C8: RBTree, right after remove(k) returns, search(k) returns null.
C8_RemovedNotFound ==
    (rbCall.op = "remove" /\ ~nullDeref) => RBTree_search(RB, rbCall.data) = NIL

\* C9: RBTree, after any sequence of insert calls search(k) returns a node
\* for every k that was inserted and null for every k that was not.
C9_InsertedFound ==
    ~rbRemoved =>
      \A d \in ProbeData :
        IF d \in rbInserted
        THEN RBTree_search(RB, d) # NIL /\ rbNode[RBTree_search(RB, d)].data = d
        ELSE RBTree_search(RB, d) = NIL

C9_Witness ==
    /\ ~rbRemoved /\ ~nullDeref
    /\ RBSize = MaxRBNodes
    /\ rbInserted = {1, 3, 4}
    /\ RBTree_search(RB, 3) # NIL
    /\ RBTree_search(RB, 2) = NIL

\* C10: RBTree, after any sequence of insert calls, also of data already in
\* the tree, the root is BLACK, no RED node has a RED child, and every path
\* from the root to an absent child holds the same number of BLACK nodes.
C10_InsertRedBlack == ~rbRemoved => (~nullDeref /\ RedBlack(RB))

C10_Witness ==
    /\ ~rbRemoved
    /\ rbCall.op = "insert" /\ rbCall.found
    /\ RBSize = MaxRBNodes
    /\ RedBlack(RB)


\* the keys of the nodes of the RedBlackTree
TreeKeys == {node[n].key : n \in Reach(T, root)}

\* the key of the node at n, 0 for no node
KeyAt(n) == IF n = NIL THEN 0 ELSE node[n].key

\* C11: RedBlackTree, for every node n of a tree reached by inserts and
\* removes, successor(n) is the node with the smallest key greater than
\* n's, absent when n holds the maximum, and predecessor(n) the node with
\* the largest key smaller than n's, absent when n holds the minimum; after
\* the round trip (insert 10,20,30,15,25,5,1, remove 20, remove 5)
\* successor(search(15)) holds 25 and predecessor(search(15)) holds 10.
C11_SuccessorPredecessor ==
    /\ \A n \in Reach(T, root) :
         /\ IF \E k \in TreeKeys : k > node[n].key
            THEN /\ successor(T, n) \in Reach(T, root)
                 /\ KeyAt(successor(T, n)) > node[n].key
                 /\ \A k \in TreeKeys :
                      k > node[n].key => KeyAt(successor(T, n)) <= k
            ELSE successor(T, n) = NIL
         /\ IF \E k \in TreeKeys : k < node[n].key
            THEN /\ predecessor(T, n) \in Reach(T, root)
                 /\ KeyAt(predecessor(T, n)) < node[n].key
                 /\ \A k \in TreeKeys :
                      k < node[n].key => KeyAt(predecessor(T, n)) >= k
            ELSE predecessor(T, n) = NIL
    /\ roundTrip = Len(RoundTrip) =>
         /\ KeyAt(successor(T, search(T, 15))) = 25
         /\ KeyAt(predecessor(T, search(T, 15))) = 10

C11_Witness ==
    /\ roundTrip = Len(RoundTrip)
    /\ search(T, 15) # NIL
    /\ KeyAt(successor(T, search(T, 15))) = 25
    /\ node[search(T, 15)].right = NIL

\* C12: RedBlackTree, inserting 10, 20, 30, 15, 25, 5, 1 into an empty tree
\* and then removing 20 and 5 leaves the in-order key sequence
\* 1, 10, 15, 25, 30, and validate() is true after each of the nine calls.
C12_RoundTrip ==
    /\ roundTrip >= 1 => (outcome = "ok" /\ validate(T))
    /\ roundTrip = Len(RoundTrip) => InOrderKeys(T) = << 1, 10, 15, 25, 30 >>

C12_Witness ==
    /\ roundTrip = Len(RoundTrip)
    /\ call = [op |-> "remove", key |-> 5]
    /\ Len(InOrderKeys(T)) = 5

RECURSIVE Shape(_, _)
\* the subtree at n without its addresses: key, value, colour and the
\* shapes of the two subtrees
Shape(t, n) ==
    IF n = NIL THEN << >>
    ELSE << t.node[n].key, t.node[n].value, t.node[n].color,
            Shape(t, t.node[n].left), Shape(t, t.node[n].right) >>

\* every node of the subtree at n is the parent of its children
ParentsLinked(t, n) ==
    \A m \in Reach(t, n) :
      /\ t.node[m].left # NIL => t.node[t.node[m].left].parent = m
      /\ t.node[m].right # NIL => t.node[t.node[m].right].parent = m

\* the tree with root r and its nodes are in the next state what they are
\* in this one
TreeKept(r, rNext) ==
    /\ rNext = r
    /\ \A n \in Reach(T, r) : n \in live' /\ node'[n] = node[n]

\* C13: RedBlackTree, a copy made by the copy constructor or by copy
\* assignment has the keys, values, colours and shape of the original and
\* shares no node with it; inserts and removes on the copy leave the
\* original's nodes, shape, colours and in-order sequence as they were,
\* and the other way round; validate() is true of both after each call.
C13_CloneIndependent ==
    [][/\ call'.op \in {"copy", "assign"} =>
            /\ Shape(T2', copyRoot') = Shape(T, root)
            /\ ParentsLinked(T2', copyRoot')
            /\ copyRoot' # NIL => node'[copyRoot'].parent = NIL
            /\ TreeKept(root, root')
       /\ call'.op \in {"copy.insert", "copy.remove"} =>
            /\ TreeKept(root, root')
            /\ inOrderTraversal(T') = inOrderTraversal(T)
       /\ (hasCopy /\ call'.op \in {"insert", "remove"}) =>
            /\ TreeKept(copyRoot, copyRoot')
            /\ inOrderTraversal(T2') = inOrderTraversal(T2)
       /\ hasCopy' =>
            /\ Reach(T', root') \cap Reach(T2', copyRoot') = {}
            /\ validate(T') /\ validate(T2')]_vars

C13_Witness ==
    /\ hasCopy
    /\ call.op = "copy.remove" /\ outcome = "ok"
    /\ Cardinality(Reach(T, root)) = MaxCopyKey
    /\ Cardinality(Reach(T2, copyRoot)) = MaxCopyKey - 1
    /\ BankOf(copyRoot) = BankB

\* C14: RedBlackTree, on every well-formed node graph, reachable by insert
\* and remove or not, validate() returns true exactly when the tree is
\* empty or the root is BLACK, no RED node has a RED child and every path
\* from the root to an absent child holds the same number of BLACK nodes;
\* validate() changes nothing in the tree.
C14_ValidateExact ==
    /\ ParentsLinked(T, root)
    /\ validate(T) <=> RedBlack(T)
    /\ call.op = "validate" => (outcome = "true" <=> RedBlack(T))

C14_Witness ==
    /\ call.op = "validate" /\ outcome = "false"
    /\ Size = MaxGraphKey
    /\ node[root].color = BLACK
    /\ \A n \in Reach(T, root) :
         node[n].color = RED
           => IsBlack(T, node[n].left) /\ IsBlack(T, node[n].right)
    /\ Cardinality(PathBlacks(T, root)) = 2

RECURSIVE Height(_, _)
\* the number of nodes on the longest path from n down to an absent child
Height(t, n) ==
    IF n = NIL THEN 0
    ELSE 1 + (IF Height(t, t.node[n].left) >= Height(t, t.node[n].right)
              THEN Height(t, t.node[n].left)
              ELSE Height(t, t.node[n].right))

\* C15: RedBlackTree, after any sequence of inserts and removes a tree of n
\* nodes whose longest path from the root to an absent child has h nodes
\* satisfies n >= 2^ceil(h/2) - 1 (the height is at most 2*log2(n+1)).
C15_HeightBound == Size >= 2 ^ ((Height(T, root) + 1) \div 2) - 1

C15_Witness ==
    /\ call.op = "remove" /\ outcome = "ok"
    /\ Height(T, root) = 4
    /\ Size = 6

(* ------------------------- C16: rotations of insert --------------------- *)

\* the passes of the last call's fixup loop
Passes == 1..Len(trail.iters)

\* C16: a single insert performs at most two rotations that restructure the
\* tree, and the rotating branch of insertFixup is taken at most once and
\* only in the last pass of the loop
C16_InsertRotations ==
    call.op = "insert"
        => /\ trail.rots <= 2
           /\ \A i \in Passes : trail.iters[i].kind = "rotate" => i = Len(trail.iters)

\* an insert that recoloured, then took the rotating branch with both of its
\* rotations
C16_Witness ==
    /\ call.op = "insert"
    /\ outcome = "ok"
    /\ trail.rots = 2
    /\ Len(trail.iters) = 2
    /\ trail.iters[1].kind = "recolor"
    /\ trail.iters[2].kind = "rotate"

(* ------------------------- C17: rotations of remove --------------------- *)

\* C17: in deleteFixup the branch for a BLACK sibling with a RED child is
\* taken at most once per remove and no pass of the loop follows it, and a
\* single remove performs at most three rotations
C17_RemoveRotations ==
    call.op = "remove"
        => /\ trail.rots <= 3
           /\ \A i \in Passes :
                  trail.iters[i].kind = "restructure" => i = Len(trail.iters)

\* a remove whose loop recoloured and moved up, then restructured and stopped
C17_Witness ==
    /\ call.op = "remove"
    /\ outcome = "ok"
    /\ trail.rots >= 1
    /\ Len(trail.iters) = 2
    /\ trail.iters[1].kind = "recolor"
    /\ trail.iters[2].kind = "restructure"

(* ----------------------- C18: the fixup loops end ----------------------- *)

\* each pass of the last call's fixup loop started nearer to the root than
\* the pass before it
MovedUp(tr) ==
    \A i \in 1..(Len(tr.iters) - 1) : tr.iters[i + 1].depth < tr.iters[i].depth

C20_RootOnlyInPrimitives ==
    call.op \in {"insert", "remove"}
        => trail.rootBy \subseteq {"leftRotate", "rightRotate", "transplant"}

\* C20: during insert and remove, root is assigned only inside leftRotate,
\* rightRotate and transplant, and by insert itself when it links the first
\* node into an empty tree; whenever root differs after the call, one of
\* them assigned it
C20_RootWriters ==
    [][call'.op \in {"insert", "remove"}
           => /\ trail'.rootBy
                     \subseteq {"leftRotate", "rightRotate", "transplant", "insert"}
              /\ "insert" \in trail'.rootBy
                     => call'.op = "insert" /\ root = NIL
              /\ call'.op = "remove" => "insert" \notin trail'.rootBy
              /\ root' # root => trail'.rootBy # {}
      ]_vars

\* an insert into an empty tree, where insert itself assigned root
C20_Witness ==
    /\ call.op = "insert"
    /\ outcome = "ok"
    /\ trail.rootBy = {"insert"}
    /\ root # NIL
    /\ Size = 1

(* ------------------- C19: what the primitives leave alone --------------- *)

\* the color, key and value of every node are the same before and after
PayloadKept ==
    \A a \in Addr :
        /\ node'[a].color = node[a].color
        /\ node'[a].key = node[a].key
        /\ node'[a].value = node[a].value

\* C19: leftRotate, rightRotate and transplant never change the color, key
\* or value of any node, and leftRotate and rightRotate leave the in-order
\* key sequence of the whole tree unchanged
C19_PrimitivesFrame ==
    [][call'.op \in {"leftRotate", "rightRotate", "transplant"}
           => /\ PayloadKept
              /\ call'.op \in {"leftRotate", "rightRotate"}
                     => InOrderKeys(T') = InOrderKeys(T)
      ]_vars

\* a left rotation at the root of a tree of MaxRotKey nodes with both
\* payloads, which made another node the root
C19_Witness ==
    /\ call.op = "leftRotate"
    /\ trail.rots = 1
    /\ trail.rootBy = {"leftRotate"}
    /\ Size = MaxRotKey
    /\ {node[a].value : a \in Reach(T, root)} = Values

(* ----------------------- C25: the links agree --------------------------- *)

\* the child links of nodes of the tree that point at a
LinksTo(a) ==
    {pf \in Reach(T, root) \X {"left", "right"} : node[pf[1]][pf[2]] = a}

\* the root has no parent, each child names its parent, and each node other
\* than the root is a child of its parent
LinksAgree ==
    /\ root # NIL => node[root].parent = NIL
    /\ \A n \in Reach(T, root) :
           /\ node[n].left # NIL => node[node[n].left].parent = n
           /\ node[n].right # NIL => node[node[n].right].parent = n
           /\ n # root => /\ node[n].parent \in Reach(T, root)
                          /\ n \in {node[node[n].parent].left,
                                    node[node[n].parent].right}

\* each node in a is reached from root, by one path: no child link leads to
\* the root and one leads to each other node
OnePath(a) ==
    /\ a \in Reach(T, root)
    /\ Cardinality(LinksTo(a)) = (IF a = root THEN 0 ELSE 1)

\* C25: after every insert and remove that returns, the root has no parent,
\* every child names its node as parent, every node other than the root is
\* a child of its parent, and every live node is reached from root by
\* exactly one path
C25_LinksConsistent ==
    call.op \in {"insert", "remove"} /\ outcome = "ok"
        => /\ LinksAgree
           /\ \A a \in live : OnePath(a)

\* the same for the nodes linked into the tree, whatever else is allocated
C25_TreeLinksConsistent ==
    /\ LinksAgree
    /\ \A a \in Reach(T, root) : OnePath(a)

(* ------------------ C22: nodes keep their key and value ----------------- *)

\* the nodes allocated before and after the call hold the key and value
\* they held
KeyValueKept ==
    \A a \in live \cap live' :
        /\ node'[a].key = node[a].key
        /\ node'[a].value = node[a].value

\* search(j) returns the same node, holding the same value, before and after
SameNode(j) ==
    /\ search(T', j) = search(T, j)
    /\ search(T, j) # NIL
    /\ node'[search(T, j)].value = node[search(T, j)].value

\* C22: no insert or remove changes the key or value of a live node; a
\* successful insert(k, v) creates one node holding k and v; a successful
\* remove(k) frees exactly the node holding k; and search(j) for every other
\* present key j returns the same node with the same value before and after
C22_NodesKeepPayload ==
    [][call'.op \in {"insert", "remove"}
           => /\ KeyValueKept
              /\ \A j \in present \ {call'.key} : SameNode(j)
              /\ call'.op = "insert" /\ outcome' = "ok"
                     => \E a \in Addr \ live :
                            /\ live' = live \cup {a}
                            /\ node'[a].key = call'.key
                            /\ search(T', call'.key) = a
              /\ call'.op = "remove" /\ outcome' = "ok"
                     => /\ node[search(T, call'.key)].key = call'.key
                        /\ live' = live \ {search(T, call'.key)}
                        /\ search(T', call'.key) = NIL
      ]_vars

\* a remove of the root of a tree of four nodes or more, a node with two
\* children, in a tree that holds both payloads
C22_Witness ==
    /\ call.op = "remove"
    /\ outcome = "ok"
    /\ "transplant" \in trail.rootBy
    /\ Size >= 3
    /\ {node[a].value : a \in Reach(T, root)} = Values

(* ------------------- C23: the const members and visits ------------------ *)

\* the calls of the const members
Queries ==
    {"search", "minimum", "maximum", "successor", "predecessor", "validate",
     "inOrderTraversal", "preOrderTraversal", "postOrderTraversal"}

Traversals == {"inOrderTraversal", "preOrderTraversal", "postOrderTraversal"}

\* visit was called exactly once on each node of the tree
VisitedOnce(ns) ==
    /\ Len(ns) = Cardinality(Reach(T, root))
    /\ {ns[i] : i \in 1..Len(ns)} = Reach(T, root)

\* the nodes of the subtrees of n
Below(n) == Reach(T, n) \ {n}

\* C23: search, minimum, maximum, successor, predecessor, validate and the
\* three traversals leave root and every node's key, value, color and links
\* unchanged; each traversal calls visit exactly once per node,
\* inOrderTraversal in ascending key order, preOrderTraversal on each node
\* before any node of its subtrees, postOrderTraversal on each node after all
\* nodes of its subtrees
C23_QueriesFrame ==
    [][call'.op \in Queries
           => /\ root' = root
              /\ node' = node
              /\ live' = live
              /\ call'.op \in Traversals => VisitedOnce(trail'.nodes)
              /\ call'.op = "inOrderTraversal"
                     => \A i \in 1..(Len(trail'.nodes) - 1) :
                            node[trail'.nodes[i]].key < node[trail'.nodes[i + 1]].key
              /\ call'.op = "preOrderTraversal"
                     => \A i, j \in 1..Len(trail'.nodes) :
                            trail'.nodes[j] \in Below(trail'.nodes[i]) => i < j
              /\ call'.op = "postOrderTraversal"
                     => \A i, j \in 1..Len(trail'.nodes) :
                            trail'.nodes[j] \in Below(trail'.nodes[i]) => j < i
      ]_vars

\* a pre-order traversal of a tree of MaxPairKey nodes
C23_Witness ==
    /\ call.op = "preOrderTraversal"
    /\ Len(trail.nodes) = MaxPairKey
    /\ trail.nodes[1] = root
    /\ Size = MaxPairKey

(* -------------------- C27: the guards that never fire ------------------- *)

\* the guards of the fixup code: the early returns of the rotations, the
\* grandparent insertFixup reads, the sibling deleteFixup reads
Guards ==
    {"leftRotate.return", "rightRotate.return", "insertFixup.grandparent",
     "deleteFixup.sibling"}

\* C27: on every tree reached by inserts and removes, leftRotate is only
\* called on a node with a right child and rightRotate on a node with a left
\* child, insertFixup reads the grandparent only when there is one, and the
\* sibling w is there in every pass of deleteFixup
C27_GuardsIdle ==
    call.op \in {"insert", "remove"} => trail.fired \cap Guards = {}

\* a remove whose fixup read the sibling and called three rotations, each
\* on a node with the child it lifts
C27_Witness ==
    /\ call.op = "remove"
    /\ outcome = "ok"
    /\ Len(trail.iters) = 1
    /\ trail.rots = 3
    /\ trail.fired = {}

(* ------------------- C21: the parent of the fixup slot ------------------ *)

\* C21: the parent remove passes to deleteFixup, and the parent at the start
\* of every pass of its loop, is the parent of the slot x: x's parent when x
\* is a node; when x is absent, the node with the empty child position x
\* stands for, the side the loop picks being the side of that position; and
\* it is absent only when x is the root position
C21_FixupParent ==
    call.op = "remove" => trail.fired \cap {"remove.parent", "deleteFixup.parent"} = {}

\* a remove whose loop made two passes: the first with x absent (a BLACK node
\* taken out leaves a RED child or none, and the loop is entered only for
\* none), the second with x the parent of the first
C21_Witness ==
    /\ call.op = "remove"
    /\ outcome = "ok"
    /\ Len(trail.iters) = 2
    /\ trail.iters[2].depth = trail.iters[1].depth - 1
    /\ trail.fired = {}

(* ------------------- C26: the freed node is left alone ------------------ *)

\* C26: remove frees the node z it was called for before deleteFixup, and
\* deleteFixup never reads or writes it: no pass has z as x, as parent, as
\* sibling or as a child of the sibling, no link leads to z when deleteFixup
\* is entered, nothing is stored in z afterwards, and when remove returns
\* neither root nor a link of a live node refers to z
C26_FreedUntouched ==
    [][call'.op = "remove" /\ outcome' = "ok"
           => /\ "deleteFixup.freed" \notin trail'.fired
              /\ search(T, call'.key) \in live \ live'
              /\ node'[search(T, call'.key)] = NoNode
              /\ root' # search(T, call'.key)
              /\ \A a \in live' :
                     search(T, call'.key)
                         \notin {node'[a].left, node'[a].right, node'[a].parent}
      ]_vars

\* a remove that took out the root, a node with two children, and whose
\* fixup then ran and rotated
C26_Witness ==
    /\ call.op = "remove"
    /\ outcome = "ok"
    /\ "transplant" \in trail.rootBy
    /\ Len(trail.iters) >= 1
    /\ trail.rots >= 1
    /\ Size >= 3

(* ------------------- C24: the loop of insertFixup ----------------------- *)

\* the heap insert(k, ...) hands to insertFixup: the new node linked in
InsertLinked(k) ==
    insertLink(New(T, Alloc(T, k), k, node'[Alloc(T, k)].value),
               Alloc(T, k), insertDescend(T, root, NIL, k).y, k)

RECURSIVE LoopHeads(_, _)
\* the heap and z each time the condition of the loop of insertFixup is
\* evaluated, from the heap t and the node z on
LoopHeads(t, z) ==
    {[t |-> t, z |-> z]}
        \cup (IF insertFixupGoes(t, z) /\ t.node[t.node[z].parent].parent # NIL
              THEN LoopHeads(insertFixupPass(t, z).t, insertFixupPass(t, z).z)
              ELSE {})

\* the RED nodes with a RED parent
RedRed(t) ==
    {n \in Reach(t, t.root) :
        /\ t.node[n].color = RED
        /\ t.node[n].parent # NIL
        /\ t.node[t.node[n].parent].color = RED}

\* what holds of the whole tree whenever the loop condition is evaluated
LoopInv(t, z) ==
    /\ BSTOrder(t)
    /\ Cardinality(PathBlacks(t, t.root)) = 1
    /\ RedRed(t) \subseteq {z}
    /\ ~(RedRed(t) # {} /\ t.node[t.root].color = RED)

\* C24: at the start of every pass of the loop of insertFixup (and when the
\* loop ends) binary-search-tree order and equal BLACK counts on all paths
\* hold for the whole tree, and at most one thing is wrong with the colors:
\* either z is RED with a RED parent or the root is RED; no other RED node
\* has a RED parent
C24_InsertLoopInvariant ==
    [][call'.op = "insert" /\ outcome' = "ok"
           => \A h \in LoopHeads(InsertLinked(call'.key), Alloc(T, call'.key)) :
                  /\ LoopInv(h.t, h.z)
                  /\ ~insertFixupGoes(h.t, h.z)
                         => Set(h.t, h.t.root, "color", BLACK).node = node'
      ]_vars

\* an insert whose loop recoloured at the new node, went on from the
\* grandparent and rotated there
C24_Witness ==
    /\ call.op = "insert"
    /\ outcome = "ok"
    /\ Len(trail.iters) = 2
    /\ trail.iters[1].kind = "recolor"
    /\ trail.iters[2].depth = trail.iters[1].depth - 2
    /\ trail.rots >= 1

=============================================================================
